---- MODULE Spec2Model ----
(***************************************************************************)
(* A model of src/indra/battlefield.py: the Soldier record and the         *)
(* QuantumBattlefield controller (add_soldier, initialize_team,            *)
(* move_soldiers, resolve_combat, record_history, step and the queries).   *)
(* Python's 0-based list positions are 1-based here; relative order is the *)
(* same.                                                                   *)
(***************************************************************************)
EXTENDS Integers, Sequences, FiniteSets, TLC

\* ------------------------------------------------------------------ bounds
\* At most MaxSoldiers soldiers are ever created.
MaxSoldiers == 2
\* A battlefield set up for one combat pass holds at most MaxFighters soldiers.
MaxFighters == 3
\* step() is called at most MaxTurn times.
MaxTurn == 2
\* Bits of a float's mantissa; random.random() returns k / 2^MantBits.
\* CPython's float has 53: the model keeps the arithmetic and scales the width.
MantBits == 8

\* ------------------------------------------------------------------ values
\* Team labels: the two the queries count, and 'B', the label record_history
\* counts and initialize_team's docstring names.
Teams == {"Quantum", "Classical", "B"}
Strengths == {1, 7, 17, 100}
\* get_winner's None
None == "<None>"

VARIABLES
    width,      \* self.width
    height,     \* self.height
    soldiers,   \* self.soldiers, a sequence of Soldier records
    turn,       \* self.turn
    history,    \* self.history: three lists
    op,         \* the method whose call led to this state
    args,       \* the arguments of that call
    raised,     \* whether that call raised an exception
    created,    \* how many soldiers were ever created (bounded by MaxSoldiers)
    moved,      \* the list the last combat pass ran on (step: after move_soldiers)
    dead,       \* dead_soldiers at the end of that pass, as positions in moved
    fights,     \* the fights of that pass in order: [i, j, cmp, loser]
    calls       \* the positions of the soldiers that call's move_soldiers passed to
                \* qlib.quantum_best_move, in the order of the calls

vars == <<width, height, soldiers, turn, history, op, args, raised, created, moved, dead, fights,
          calls>>

\* ------------------------------------------------------------------ Soldier
Soldier(x, y, strength, unit_type, team, range_dist) ==
    [x |-> x, y |-> y, strength |-> strength, unit_type |-> unit_type,
     team |-> team, range_dist |-> range_dist]

Abs(n) == IF n < 0 THEN -n ELSE n
Min(a, b) == IF a <= b THEN a ELSE b
Max(a, b) == IF a >= b THEN a ELSE b

distance_to(self, other) == Abs(self.x - other.x) + Abs(self.y - other.y)

\* can_fight without the range check.
can_fight_any_distance(self, other) == self.team /= other.team

\* can_fight without the team check.
can_fight_own_team(self, other) == distance_to(self, other) <= self.range_dist

\* can_fight reading the other soldier's range.
can_fight_other_range(self, other) ==
    self.team /= other.team /\ distance_to(self, other) <= other.range_dist

can_fight(self, other) ==
    self.team /= other.team /\ distance_to(self, other) <= self.range_dist

\* ------------------------------------------------------------------ floats
Pow2(n) == 2 ^ n

\* The number of bits of v: the L with 2^(L-1) <= v < 2^L.
BitLen(v) == IF v = 0 THEN 0 ELSE CHOOSE L \in 1 .. 30 : Pow2(L - 1) <= v /\ v < Pow2(L)

\* One float is Ulp units of the fixed-point values below.
Ulp == Pow2(MantBits)

\* Round-to-nearest, ties to even, of a non-negative value to MantBits
\* significant bits: what every float operation does to its exact result.
RoundFloat(v) ==
    LET L == BitLen(v)
    IN  IF L <= MantBits THEN v
        ELSE LET u == Pow2(L - MantBits)
                 q == v \div u
                 r == v % u
             IN  IF 2 * r < u THEN q * u
                 ELSE IF 2 * r > u THEN (q + 1) * u
                 ELSE IF q % 2 = 0 THEN q * u ELSE (q + 1) * u

\* random.random(): k / 2^MantBits for 0 <= k < 2^MantBits, so in [0, 1).
RandomDraws == 0 .. (Ulp - 1)

\* strength + random.random() * 10, in units of 1/Ulp
Roll(strength, k) == RoundFloat(RoundFloat(strength * Ulp) + RoundFloat(10 * k))

Rolls(s) == {Roll(s, k) : k \in RandomDraws}

\* How roll1 compares with roll2.
Compare(roll1, roll2) ==
    IF roll1 > roll2 THEN "gt" ELSE IF roll1 = roll2 THEN "eq" ELSE "lt"

\* The comparisons the two draws of a fight can give, by the two strengths.
\* (table @@ table is the table itself, held as an explicit function.)
RollTable ==
    LET table == [p \in Strengths \X Strengths |->
                    {Compare(r1, r2) : r1 \in Rolls(p[1]), r2 \in Rolls(p[2])}]
    IN  table @@ table

Comparisons(soldier1, soldier2) == RollTable[<<soldier1.strength, soldier2.strength>>]

\* ------------------------------------------------------------------ inputs
\* The constructor's arguments <<width, height>>: a single cell, a row, a column.
Grids == {<<1, 1>>, <<3, 1>>, <<1, 2>>}

\* The soldiers add_soldier is called with: inside the grid or outside it.
AddPositions == {<<2, 0>>, <<-1, 2>>}
Recruits ==
    {Soldier(p[1], p[2], 7, "soldier", t, 1) : p \in AddPositions, t \in Teams}

\* The arguments initialize_team is called with: <<team, composition,
\* start_x_range>>. A composition is a dict, here its entries in insertion
\* order. The team is one of the two the docstring names ('Quantum' or 'B').
\* The last call has an empty x range.
Entry(unit_type, count) ==
    [unit_type |-> unit_type, count |-> count, strength |-> 7, range_dist |-> 1]
Compositions ==
    {<<Entry("soldier", c)>> : c \in 1 .. MaxSoldiers}
        \cup {<<Entry("soldier", 1), Entry("archer", c)>> : c \in 0 .. (MaxSoldiers - 1)}
InitializeArgs ==
    ({"Quantum", "B"} \X Compositions \X {<<2, 3>>})
        \cup {<<"Quantum", <<Entry("soldier", 1)>>, <<1, 0>>>>}

\* What qlib.quantum_best_move may return: a cell of the grid or a place off it.
QuantumTargets == {<<-1, -1>>, <<1, 0>>, <<3, 2>>}

\* ------------------------------------------------------------------ __init__
board_size == width * height

EmptyHistory == [team_a_count |-> <<>>, team_b_count |-> <<>>, turn |-> <<>>]

NoArgs == <<>>

Init ==
    /\ \E g \in Grids : width = g[1] /\ height = g[2]
    /\ soldiers = <<>>
    /\ turn = 0
    /\ history = EmptyHistory
    /\ op = "__init__"
    /\ args = NoArgs
    /\ raised = FALSE
    /\ created = 0
    /\ moved = <<>>
    /\ dead = {}
    /\ fights = <<>>
    /\ calls = <<>>

\* ------------------------------------------------------------------ queries
\* sum(1 for s in list if s.team == team)
Count(list, team) == Cardinality({i \in DOMAIN list : list[i].team = team})

get_survivor_count == <<Count(soldiers, "Quantum"), Count(soldiers, "Classical")>>

\* is_battle_over counting the label record_history counts.
is_battle_over_label_B ==
    LET count_a == Count(soldiers, "Quantum")
        count_b == Count(soldiers, "B")
    IN  count_a = 0 \/ count_b = 0

is_battle_over ==
    LET count_a == Count(soldiers, "Quantum")
        count_b == Count(soldiers, "Classical")
    IN  count_a = 0 \/ count_b = 0

\* get_winner with the two labels exchanged.
get_winner_exchanged ==
    LET count_a == Count(soldiers, "Quantum")
        count_b == Count(soldiers, "Classical")
    IN  IF count_a = 0 /\ count_b = 0 THEN None
        ELSE IF count_a = 0 THEN "Quantum"
        ELSE IF count_b = 0 THEN "Classical"
        ELSE None

get_winner ==
    LET count_a == Count(soldiers, "Quantum")
        count_b == Count(soldiers, "Classical")
    IN  IF count_a = 0 /\ count_b = 0 THEN None
        ELSE IF count_a = 0 THEN "Classical"
        ELSE IF count_b = 0 THEN "Quantum"
        ELSE None

\* ------------------------------------------------------------------ add_soldier
add_soldier(list, soldier) == Append(list, soldier)

AddSoldier ==
    /\ created < MaxSoldiers
    /\ \E s \in Recruits : soldiers' = add_soldier(soldiers, s)
    /\ created' = created + 1
    /\ op' = "add_soldier"
    /\ args' = NoArgs
    /\ raised' = FALSE
    /\ moved' = <<>>
    /\ dead' = {}
    /\ fights' = <<>>
    /\ calls' = <<>>
    /\ UNCHANGED <<width, height, turn, history>>

\* ------------------------------------------------------------------ initialize_team
\* random.randint(a, b): an integer of a..b; raises ValueError when a > b.
randint(a, b) == a .. b

\* Drawn with team and unit_type passed to Soldier in each other's place.
RECURSIVE Drawn_exchanged(_, _, _, _, _)
Drawn_exchanged(n, team, entry, start_x_range, h) ==
    IF n = 0 THEN {<<>>}
    ELSE {<<Soldier(x, y, entry.strength, team, entry.unit_type, entry.range_dist)>>
            \o rest :
            x \in start_x_range[1] .. start_x_range[2],
            y \in 0 .. (h - 1),
            rest \in Drawn_exchanged(n - 1, team, entry, start_x_range, h)}

\* The lists the inner loop can append for one entry, n soldiers still to come.
RECURSIVE Drawn(_, _, _, _, _)
Drawn(n, team, entry, start_x_range, h) ==
    IF n = 0 THEN {<<>>}
    ELSE {<<Soldier(x, y, entry.strength, entry.unit_type, team, entry.range_dist)>>
            \o rest :
            x \in randint(start_x_range[1], start_x_range[2]),
            y \in randint(0, h - 1),
            rest \in Drawn(n - 1, team, entry, start_x_range, h)}

\* Every list initialize_team can leave; none when a randint raises.
RECURSIVE initialize_team(_, _, _, _, _)
initialize_team(list, team, composition, start_x_range, h) ==
    IF composition = <<>> THEN {list}
    ELSE UNION {initialize_team(list \o new, team, Tail(composition), start_x_range, h) :
                  new \in Drawn(Head(composition).count, team, Head(composition),
                                start_x_range, h)}

RECURSIVE TotalCount(_)
TotalCount(composition) ==
    IF composition = <<>> THEN 0
    ELSE Head(composition).count + TotalCount(Tail(composition))

InitializeTeam ==
    \E a \in InitializeArgs :
      LET team == a[1]
          composition == a[2]
          start_x_range == a[3]
      IN
        /\ created + TotalCount(composition) <= MaxSoldiers
        /\ LET lists == initialize_team(soldiers, team, composition, start_x_range, height)
           IN  IF lists = {}
               \* ValueError from the first randint, before any soldier is added
               THEN soldiers' = soldiers /\ raised' = TRUE
               ELSE soldiers' \in lists /\ raised' = FALSE
        /\ created' = created + (Len(soldiers') - Len(soldiers))
        /\ op' = "initialize_team"
        /\ args' = <<team, composition, start_x_range>>
        /\ moved' = <<>>
        /\ dead' = {}
        /\ fights' = <<>>
        /\ calls' = <<>>
        /\ UNCHANGED <<width, height, turn, history>>

\* ------------------------------------------------------------------ record_history
\* record_history called before the turn counter is raised.
record_history_early(h, list, t) ==
    [team_a_count |-> Append(h.team_a_count, Count(list, "Quantum")),
     team_b_count |-> Append(h.team_b_count, Count(list, "B")),
     turn         |-> Append(h.turn, t - 1)]

record_history(h, list, t) ==
    [team_a_count |-> Append(h.team_a_count, Count(list, "Quantum")),
     team_b_count |-> Append(h.team_b_count, Count(list, "B")),
     turn         |-> Append(h.turn, t)]

\* ------------------------------------------------------------------ move_soldiers
\* best_move with the random walk's offsets added to the soldier's position.
best_move_from_position(soldier) ==
    IF soldier.team = "Quantum" THEN QuantumTargets
    ELSE {<<soldier.x + dx, soldier.y + dy>> : dx \in -1 .. 1, dy \in -1 .. 1}

\* The targets best_move can hold for one soldier.
best_move(soldier) ==
    IF soldier.team = "Quantum" THEN QuantumTargets
    ELSE (-1 .. 1) \X (-1 .. 1)

\* clip without the lower bound.
clip_upper_only(limit, v) == Min(limit - 1, v)

clip(limit, v) == Max(0, Min(limit - 1, v))

\* MoveOne replacing the soldier by a new one of the unit type 'soldier'.
MoveOne_retyped(soldier, w, h) ==
    {[soldier EXCEPT !.x = clip(w, m[1]), !.y = clip(h, m[2]), !.unit_type = "soldier"] :
        m \in best_move(soldier)}

MoveOne(soldier, w, h) ==
    {[soldier EXCEPT !.x = clip(w, m[1]), !.y = clip(h, m[2])] :
        m \in best_move(soldier)}

\* Every list move_soldiers can leave.
RECURSIVE move_soldiers(_, _, _)
move_soldiers(list, w, h) ==
    IF list = <<>> THEN {<<>>}
    ELSE {<<s>> \o rest :
            s \in MoveOne(Head(list), w, h),
            rest \in move_soldiers(Tail(list), w, h)}

\* The list positions move_soldiers calls qlib.quantum_best_move for, from
\* position i on, in the order of the calls.
RECURSIVE quantum_calls(_, _)
quantum_calls(list, i) ==
    IF i > Len(list) THEN <<>>
    ELSE (IF list[i].team = "Quantum" THEN <<i>> ELSE <<>>) \o quantum_calls(list, i + 1)

\* ------------------------------------------------------------------ resolve_combat
\* Loser with the two branches exchanged.
Loser_exchanged(i, j, cmp) == IF cmp = "gt" THEN i ELSE j

\* Loser with `roll1 >= roll2` in place of `roll1 > roll2`.
Loser_ties_to_first(i, j, cmp) == IF cmp \in {"gt", "eq"} THEN j ELSE i

\* `if roll1 > roll2`: the second soldier of the pair dies, else the first.
Loser(i, j, cmp) == IF cmp = "gt" THEN j ELSE i

\* CombatFrom marking both soldiers of a fight whose rolls are equal.
RECURSIVE CombatFrom_tie_kills_both(_, _, _, _, _)
CombatFrom_tie_kills_both(list, i, j, d, fought) ==
    IF i > Len(list) THEN {[dead |-> d, fights |-> fought]}
    ELSE IF j > Len(list) THEN CombatFrom_tie_kills_both(list, i + 1, 1, d, fought)
    ELSE IF i >= j \/ j \in d \/ i \in d
         THEN CombatFrom_tie_kills_both(list, i, j + 1, d, fought)
    ELSE IF can_fight(list[i], list[j])
         THEN UNION {CombatFrom_tie_kills_both(list, i, j + 1,
                        d \cup (IF cmp = "eq" THEN {i, j} ELSE {Loser(i, j, cmp)}),
                        Append(fought, [i |-> i, j |-> j, cmp |-> cmp,
                                        loser |-> Loser(i, j, cmp)])) :
                     cmp \in Comparisons(list[i], list[j])}
         ELSE CombatFrom_tie_kills_both(list, i, j + 1, d, fought)

\* The two nested loops from pair (i, j) on, with dead_soldiers = d and the
\* fights fought so far: every way the pass can end, as [dead, fights].
RECURSIVE CombatFrom(_, _, _, _, _)
CombatFrom(list, i, j, d, fought) ==
    IF i > Len(list) THEN {[dead |-> d, fights |-> fought]}
    ELSE IF j > Len(list) THEN CombatFrom(list, i + 1, 1, d, fought)
    ELSE IF i >= j \/ j \in d \/ i \in d THEN CombatFrom(list, i, j + 1, d, fought)
    ELSE IF can_fight(list[i], list[j])
         THEN UNION {CombatFrom(list, i, j + 1, d \cup {Loser(i, j, cmp)},
                                Append(fought, [i |-> i, j |-> j, cmp |-> cmp,
                                                loser |-> Loser(i, j, cmp)])) :
                     cmp \in Comparisons(list[i], list[j])}
         ELSE CombatFrom(list, i, j + 1, d, fought)

combat_pass(list) == CombatFrom(list, 1, 1, {}, <<>>)

\* [s for i, s in enumerate(self.soldiers) if i not in dead_soldiers]
RECURSIVE RemoveFrom(_, _, _)
RemoveFrom(list, i, d) ==
    IF i > Len(list) THEN <<>>
    ELSE (IF i \in d THEN <<>> ELSE <<list[i]>>) \o RemoveFrom(list, i + 1, d)

\* remove_dead extending the list by the survivors instead of replacing it.
remove_dead_extend(list, d) == list \o RemoveFrom(list, 1, d)

\* remove_dead leaving the survivors in reverse order.
remove_dead_reversed(list, d) ==
    LET kept == RemoveFrom(list, 1, d)
    IN  [n \in 1 .. Len(kept) |-> kept[Len(kept) - n + 1]]

remove_dead(list, d) == RemoveFrom(list, 1, d)

ResolveCombat ==
    /\ \E pass \in combat_pass(soldiers) :
        /\ soldiers' = remove_dead(soldiers, pass.dead)
        /\ dead' = pass.dead
        /\ fights' = pass.fights
    /\ op' = "resolve_combat"
    /\ args' = NoArgs
    /\ raised' = FALSE
    /\ moved' = soldiers
    /\ calls' = <<>>
    /\ UNCHANGED <<width, height, turn, history, created>>

\* ------------------------------------------------------------------ step
\* step() resolving combat before it moves the soldiers.
Step_combat_first ==
    /\ turn < MaxTurn
    /\ \E pass \in combat_pass(soldiers) :
       \E m \in move_soldiers(remove_dead(soldiers, pass.dead), width, height) :
        /\ moved' = soldiers
        /\ dead' = pass.dead
        /\ fights' = pass.fights
        /\ soldiers' = m
    /\ calls' = quantum_calls(remove_dead(soldiers, dead'), 1)
    /\ turn' = turn + 1
    /\ history' = record_history(history, soldiers', turn')
    /\ op' = "step"
    /\ args' = NoArgs
    /\ raised' = FALSE
    /\ UNCHANGED <<width, height, created>>

Step ==
    /\ turn < MaxTurn
    /\ \E m \in move_soldiers(soldiers, width, height) :
       \E pass \in combat_pass(m) :
        /\ moved' = m
        /\ dead' = pass.dead
        /\ fights' = pass.fights
        /\ soldiers' = remove_dead(m, pass.dead)
    /\ calls' = quantum_calls(soldiers, 1)
    /\ turn' = turn + 1
    /\ history' = record_history(history, soldiers', turn')
    /\ op' = "step"
    /\ args' = NoArgs
    /\ raised' = FALSE
    /\ UNCHANGED <<width, height, created>>

Next == AddSoldier \/ InitializeTeam \/ ResolveCombat \/ Step

Spec == Init /\ [][Next]_vars

\* ------------------------------------------------------------------ combat alone
\* resolve_combat() called on a battlefield of the default size that add_soldier
\* has filled: the pass itself, on soldiers of every strength and range.
DefaultWidth == 4
DefaultHeight == 4

\* Strength and range_dist of the soldiers that fight.
CombatKinds == {<<100, 5>>, <<1, 5>>, <<7, 1>>, <<17, 1>>}
\* Opposing soldiers stand at distance 0, 1, 5 or 6.
Fighters ==
    {Soldier(p[1], p[2], k[1], "soldier", "Quantum", k[2]) :
        p \in {<<0, 0>>, <<1, 0>>, <<3, 3>>}, k \in CombatKinds}
    \cup {Soldier(p[1], p[2], k[1], "soldier", "Classical", k[2]) :
        p \in {<<1, 0>>, <<3, 3>>}, k \in CombatKinds}
    \cup {Soldier(1, 0, 1, "soldier", "B", 5)}

InitCombat ==
    /\ width = DefaultWidth
    /\ height = DefaultHeight
    /\ soldiers \in UNION {[1 .. n -> Fighters] : n \in 0 .. MaxFighters}
    /\ turn = 0
    /\ history = EmptyHistory
    /\ op = "add_soldier"
    /\ args = NoArgs
    /\ raised = FALSE
    /\ created = Len(soldiers)
    /\ moved = <<>>
    /\ dead = {}
    /\ fights = <<>>
    /\ calls = <<>>

NextCombat == ResolveCombat

SpecCombat == InitCombat /\ [][NextCombat]_vars

\* ================================================================== claims
InGrid(s) == 0 <= s.x /\ s.x < width /\ 0 <= s.y /\ s.y < height

\* C1: on a battlefield with width >= 1 and height >= 1, after a step() every
\* soldier in the list has 0 <= x < width and 0 <= y < height, wherever it stood
\* before and whatever target the movement function or the random walk gave.
C1_ClippingInvariant ==
    (op = "step" /\ width >= 1 /\ height >= 1) =>
        \A i \in DOMAIN soldiers : InGrid(soldiers[i])

\* A step has left a Quantum soldier at the far edge beside a soldier of another team.
C1_Witness ==
    /\ op = "step"
    /\ width = 3
    /\ \E i, j \in DOMAIN soldiers :
        /\ soldiers[i].team = "Quantum" /\ soldiers[i].x = width - 1
        /\ soldiers[j].team /= "Quantum"

\* C2: after step(), the history entry just appended (team A count, team B
\* count) equals get_survivor_count(), whichever label the second team's
\* soldiers were created with.
C2_HistoryEqualsSurvivorCount ==
    op = "step" =>
        <<history.team_a_count[Len(history.team_a_count)],
          history.team_b_count[Len(history.team_b_count)]>> = get_survivor_count

\* C3: in step(), a soldier of the random-walk team moves to the clamp of
\* (x + dx, y + dy) for its position (x, y) before the move and dx, dy in
\* {-1, 0, 1}; from a cell of the grid its x and its y change by at most 1.
C3_RandomWalkFromPosition ==
    [][op' = "step" =>
        \A i \in DOMAIN soldiers :
            soldiers[i].team /= "Quantum" =>
                /\ \E dx, dy \in -1 .. 1 :
                    /\ moved'[i].x = clip(width, soldiers[i].x + dx)
                    /\ moved'[i].y = clip(height, soldiers[i].y + dy)
                /\ InGrid(soldiers[i]) =>
                    /\ Abs(moved'[i].x - soldiers[i].x) <= 1
                    /\ Abs(moved'[i].y - soldiers[i].y) <= 1]_vars

\* C4: from a new battlefield, after n step() calls turn = n, each of the three
\* history lists has n entries and the recorded turns are 1, 2, ..., n; every
\* step() raises turn by 1 and appends one entry to each list.
C4_TurnAndHistory ==
    /\ [](/\ Len(history.team_a_count) = turn
          /\ Len(history.team_b_count) = turn
          /\ Len(history.turn) = turn
          /\ \A k \in 1 .. turn : history.turn[k] = k)
    /\ [][op' = "step" =>
            /\ turn' = turn + 1
            /\ Len(history'.turn) = Len(history.turn) + 1
            /\ SubSeq(history'.turn, 1, Len(history.turn)) = history.turn
            /\ SubSeq(history'.team_a_count, 1, turn) = history.team_a_count
            /\ SubSeq(history'.team_b_count, 1, turn) = history.team_b_count]_vars

\* The second step() has been made.
C4_Witness == op = "step" /\ turn = 2 /\ history.turn = <<1, 2>>

\* C5: both components of get_survivor_count() are >= 0, and neither is larger
\* after a step() than before it.
C5_SurvivorsNeverIncrease ==
    /\ [](get_survivor_count[1] >= 0 /\ get_survivor_count[2] >= 0)
    /\ [][op' = "step" =>
            /\ get_survivor_count'[1] <= get_survivor_count[1]
            /\ get_survivor_count'[2] <= get_survivor_count[2]]_vars

\* A step() in which a counted soldier died while one of the other team lived.
C5_Witness ==
    /\ op = "step"
    /\ Count(moved, "Classical") > Count(soldiers, "Classical")
    /\ Count(soldiers, "Quantum") > 0

\* C6: is_battle_over() is true exactly when a component of
\* get_survivor_count() is zero.
C6_BattleOverIffZeroComponent ==
    is_battle_over <=> (get_survivor_count[1] = 0 \/ get_survivor_count[2] = 0)

\* A fight has just ended the battle.
C6_Witness ==
    /\ op = "step"
    /\ is_battle_over
    /\ Count(moved, "Quantum") > 0 /\ Count(moved, "Classical") > 0

\* C7: get_winner() returns the label of the team that still has soldiers when
\* exactly one of the two teams ('Quantum', 'Classical') has none, and None when
\* both have none or both have some.
C7_WinnerIsSurvivingTeam ==
    LET quantum == Count(soldiers, "Quantum")
        classical == Count(soldiers, "Classical")
    IN  /\ (quantum > 0 /\ classical = 0) => get_winner = "Quantum"
        /\ (quantum = 0 /\ classical > 0) => get_winner = "Classical"
        /\ (quantum = 0 /\ classical = 0) => get_winner = None
        /\ (quantum > 0 /\ classical > 0) => get_winner = None

\* The Classical team has won a fight against the last Quantum soldier.
C7_Witness ==
    /\ op = "step"
    /\ get_winner = "Classical"
    /\ Count(moved, "Quantum") > 0

\* The scenario of C8: team A strength 100 at (0,0) range 5, team B strength 1
\* at (1,0) range 5, and nobody else.
C8_Scenario(list) ==
    /\ Len(list) = 2
    /\ list[1] = Soldier(0, 0, 100, "soldier", "Quantum", 5)
    /\ list[2].team \in {"Classical", "B"}
    /\ list[2] = Soldier(1, 0, 1, "soldier", list[2].team, 5)

\* In every fight of the pass between soldiers whose strengths differ by at
\* least `margin`, the weaker one is the one marked dead.
C8_StrongerWins(margin) ==
    op' = "resolve_combat" =>
        /\ \A k \in DOMAIN fights' :
            LET first == soldiers[fights'[k].i]
                second == soldiers[fights'[k].j]
            IN  /\ first.strength >= second.strength + margin =>
                    fights'[k].loser = fights'[k].j
                /\ second.strength >= first.strength + margin =>
                    fights'[k].loser = fights'[k].i
        /\ C8_Scenario(soldiers) =>
            (get_survivor_count' = <<1, 0>> /\ get_winner' = "Quantum")

\* C8 (as claimed): when two opposing soldiers fight and one's strength exceeds
\* the other's by at least 10, the weaker one is removed and the stronger one
\* survives the fight, for every pair of draws and either order in the list; in
\* the scenario one resolve_combat() leaves get_survivor_count() = (1, 0) and
\* get_winner() = team A's label.
C8_StrongerByTenSurvives == [][C8_StrongerWins(10)]_vars

\* C8 (amended): the same for a strength that exceeds the other's by more than
\* 10 (an integer strength: by at least 11).
C8_StrongerByElevenSurvives == [][C8_StrongerWins(11)]_vars

\* A fight in which the later soldier of the pair is the stronger by 11 or more.
C8_Witness ==
    /\ op = "resolve_combat"
    /\ \E k \in DOMAIN fights :
        /\ moved[fights[k].j].strength >= moved[fights[k].i].strength + 11
        /\ fights[k].loser = fights[k].i

\* No two soldiers of opposing teams stand within the range of either.
NoPairInRange(list) ==
    \A i, j \in DOMAIN list :
        list[i].team /= list[j].team =>
            /\ distance_to(list[i], list[j]) > list[i].range_dist
            /\ distance_to(list[i], list[j]) > list[j].range_dist

\* C9: resolve_combat() leaves the list as it was when every pair of soldiers
\* of opposing teams stands farther apart than both soldiers' range_dist.
C9_NoEngagementNoRemoval ==
    [][(op' = "resolve_combat" /\ NoPairInRange(soldiers)) => soldiers' = soldiers]_vars

\* A pass over opposing soldiers, all out of each other's range.
C9_Witness ==
    /\ op = "resolve_combat"
    /\ \E i, j \in DOMAIN moved : moved[i].team /= moved[j].team
    /\ NoPairInRange(moved)
    /\ soldiers = moved

\* C10: a call initialize_team(team, composition, (x_min, x_max)) that returns
\* appends, for every entry unit_type -> (count, strength, range_dist), exactly
\* count soldiers of that team, unit_type, strength and range_dist, each with
\* x_min <= x <= x_max and 0 <= y <= height - 1, and nothing else; the soldiers
\* already in the list, turn and history stay as they were.
C10_InitializeTeam ==
    [][(op' = "initialize_team" /\ ~raised') =>
        LET team == args'[1]
            composition == args'[2]
            start_x_range == args'[3]
            new == SubSeq(soldiers', Len(soldiers) + 1, Len(soldiers'))
        IN  /\ Len(soldiers') >= Len(soldiers)
            /\ SubSeq(soldiers', 1, Len(soldiers)) = soldiers
            /\ \A k \in DOMAIN composition :
                LET entry == composition[k]
                    made == {n \in DOMAIN new : new[n].unit_type = entry.unit_type}
                IN  /\ Cardinality(made) = entry.count
                    /\ \A n \in made :
                        /\ new[n].team = team
                        /\ new[n].strength = entry.strength
                        /\ new[n].range_dist = entry.range_dist
                        /\ start_x_range[1] <= new[n].x /\ new[n].x <= start_x_range[2]
                        /\ 0 <= new[n].y /\ new[n].y <= height - 1
            /\ \A n \in DOMAIN new :
                \E k \in DOMAIN composition : new[n].unit_type = composition[k].unit_type
            /\ turn' = turn
            /\ history' = history]_vars

\* A call after the first turn whose composition has two entries, one soldier each.
C10_Witness ==
    /\ op = "initialize_team"
    /\ ~raised
    /\ turn >= 1
    /\ Len(args[2]) = 2
    /\ args[2][2].count = 1
    /\ Len(soldiers) = 2

\* C12 (as claimed): when the two rolls of a fight are equal, the first-indexed
\* soldier of the pair wins: the second-indexed one is marked dead and the
\* first-indexed one is not marked by that fight.
C12_TieFirstIndexedWins ==
    [][op' = "resolve_combat" =>
        \A k \in DOMAIN fights' :
            fights'[k].cmp = "eq" =>
                /\ fights'[k].loser = fights'[k].j
                /\ fights'[k].j \in dead']_vars

\* C12 (amended): when the two rolls of a fight are equal, the first-indexed
\* soldier of the pair is the one marked dead (and removed at the end of the
\* pass) and the second-indexed one is not marked by that fight; when the two
\* are the whole list, the second-indexed soldier is all that is left.
C12_TieFirstIndexedDies ==
    [][op' = "resolve_combat" =>
        \A k \in DOMAIN fights' :
            fights'[k].cmp = "eq" =>
                /\ fights'[k].loser = fights'[k].i
                /\ fights'[k].i \in dead'
                /\ Len(soldiers) = 2 => soldiers' = <<soldiers[2]>>]_vars

\* A tie between a first-indexed soldier of strength 17 and one of strength 7.
C12_Witness ==
    /\ op = "resolve_combat"
    /\ \E k \in DOMAIN fights :
        /\ fights[k].cmp = "eq"
        /\ moved[fights[k].i].strength = 17
        /\ moved[fights[k].j].strength = 7
        /\ fights[k].i \in dead

\* The positions marked dead by the fights enumerated before the pair (i, j).
DeadBefore(fought, i, j) ==
    {fought[k].loser : k \in {n \in DOMAIN fought :
        fought[n].i < i \/ (fought[n].i = i /\ fought[n].j < j)}}

\* C13: in one resolve_combat() pass, positions i < j fight if and only if, when
\* the pair is enumerated, neither is marked dead, the two soldiers are on
\* different teams and their Manhattan distance is <= the range_dist of the
\* soldier at i; the range_dist of the soldier at j plays no part. Pairs are
\* enumerated by i, then by j, and fight at most once.
C13_PairFightsIff ==
    [][op' = "resolve_combat" =>
        /\ \A k \in DOMAIN fights' :
            /\ fights'[k].i \in DOMAIN soldiers /\ fights'[k].j \in DOMAIN soldiers
            /\ fights'[k].i < fights'[k].j
            /\ \A n \in DOMAIN fights' :
                n < k => \/ fights'[n].i < fights'[k].i
                         \/ fights'[n].i = fights'[k].i /\ fights'[n].j < fights'[k].j
        /\ \A i, j \in DOMAIN soldiers :
            i < j =>
                ((\E k \in DOMAIN fights' : fights'[k].i = i /\ fights'[k].j = j)
                 <=> /\ i \notin DeadBefore(fights', i, j)
                     /\ j \notin DeadBefore(fights', i, j)
                     /\ soldiers[i].team /= soldiers[j].team
                     /\ Abs(soldiers[i].x - soldiers[j].x) + Abs(soldiers[i].y - soldiers[j].y)
                            <= soldiers[i].range_dist)]_vars

\* A pass in which two opposing soldiers stood within the later-indexed one's
\* range only and did not fight, while another pair did.
C13_Witness ==
    /\ op = "resolve_combat"
    /\ fights /= <<>>
    /\ \E i, j \in DOMAIN moved :
        /\ i < j
        /\ moved[i].team /= moved[j].team
        /\ distance_to(moved[i], moved[j]) > moved[i].range_dist
        /\ distance_to(moved[i], moved[j]) <= moved[j].range_dist
        /\ i \notin dead /\ j \notin dead
        /\ \A k \in DOMAIN fights : ~(fights[k].i = i /\ fights[k].j = j)

\* C14: in one resolve_combat() pass a soldier marked dead takes part in no
\* later fight of the pass, every fight marks exactly one of its two
\* participants dead, and the list after the pass is exactly the soldiers not
\* marked dead, in the relative order they had before the pass.
C14_DeadFightNoMore ==
    [][op' = "resolve_combat" =>
        /\ \A k, n \in DOMAIN fights' :
            k < n => fights'[k].loser \notin {fights'[n].i, fights'[n].j}
        /\ \A k \in DOMAIN fights' : fights'[k].loser \in {fights'[k].i, fights'[k].j}
        /\ dead' = {fights'[k].loser : k \in DOMAIN fights'}
        /\ Cardinality(dead') = Len(fights')
        /\ dead' \subseteq DOMAIN soldiers
        /\ Len(soldiers') = Len(soldiers) - Cardinality(dead')
        /\ \A n \in DOMAIN soldiers' :
            \E p \in DOMAIN soldiers :
                /\ p \notin dead'
                /\ Cardinality({q \in 1 .. p : q \notin dead'}) = n
                /\ soldiers'[n] = soldiers[p]]_vars

\* A pass over three soldiers in which the middle one died in its first fight,
\* stood in range of the last one, an enemy, and did not fight it.
C14_Witness ==
    /\ op = "resolve_combat"
    /\ Len(moved) = 3
    /\ dead = {2}
    /\ Len(fights) = 1
    /\ can_fight(moved[2], moved[3])
    /\ moved[1] /= moved[3]
    /\ soldiers = <<moved[1], moved[3]>>

\* The position, in a list whose positions d were removed, of the soldier that
\* stood at position p of the list before the removal.
PlaceAfter(p, d) == Cardinality({q \in 1 .. p : q \notin d})

\* C15: resolve_combat() changes nothing but the membership of the list: every
\* soldier that survives the pass has the x, y, strength, unit_type, team and
\* range_dist it had, and width, height, turn and history are unchanged. Across
\* a step(), a surviving soldier's strength, unit_type, team and range_dist are
\* unchanged.
C15_CombatFrame ==
    [][/\ op' = "resolve_combat" =>
            /\ \A p \in DOMAIN soldiers :
                p \notin dead' =>
                    /\ PlaceAfter(p, dead') \in DOMAIN soldiers'
                    /\ soldiers'[PlaceAfter(p, dead')] = soldiers[p]
            /\ Len(soldiers') = Cardinality(DOMAIN soldiers \ dead')
            /\ width' = width /\ height' = height
            /\ turn' = turn /\ history' = history
       /\ op' = "step" =>
            /\ \A p \in DOMAIN soldiers :
                p \notin dead' =>
                    /\ PlaceAfter(p, dead') \in DOMAIN soldiers'
                    /\ LET before == soldiers[p]
                           after == soldiers'[PlaceAfter(p, dead')]
                       IN  /\ after.strength = before.strength
                           /\ after.unit_type = before.unit_type
                           /\ after.team = before.team
                           /\ after.range_dist = before.range_dist
            /\ Len(soldiers') = Cardinality(DOMAIN soldiers \ dead')
            /\ width' = width /\ height' = height]_vars

\* After a turn, a resolve_combat() call in which one soldier died and one lived.
C15_Witness ==
    /\ op = "resolve_combat"
    /\ turn >= 1
    /\ dead /= {}
    /\ Len(soldiers) >= 1

\* C16: within one step() every soldier is moved and clipped before any pair is
\* evaluated for combat, the external movement function being called once for
\* each Quantum soldier and for no other; every fight of the turn is decided on
\* the positions after the move; the turn counter is raised after combat and
\* the history entry holds the counts and the turn after combat.
C16_MoveThenCombatThenRecord ==
    [][op' = "step" =>
        \* the pass ran on a list of all the soldiers, each moved and clipped
        /\ Len(moved') = Len(soldiers)
        /\ \A i \in DOMAIN soldiers :
            /\ moved'[i] = [soldiers[i] EXCEPT !.x = moved'[i].x, !.y = moved'[i].y]
            /\ (width >= 1 /\ height >= 1) =>
                    /\ 0 <= moved'[i].x /\ moved'[i].x < width
                    /\ 0 <= moved'[i].y /\ moved'[i].y < height
            /\ Cardinality({n \in DOMAIN calls' : calls'[n] = i})
                    = IF soldiers[i].team = "Quantum" THEN 1 ELSE 0
        /\ \A n \in DOMAIN calls' : calls'[n] \in DOMAIN soldiers
        \* every fight is one of the moved list: of two positions of it, on
        \* two teams, within the first one's range where they stand after the move
        /\ \A k \in DOMAIN fights' :
            LET i == fights'[k].i
                j == fights'[k].j
            IN  /\ i \in DOMAIN moved' /\ j \in DOMAIN moved' /\ i < j
                /\ moved'[i].team /= moved'[j].team
                /\ Abs(moved'[i].x - moved'[j].x) + Abs(moved'[i].y - moved'[j].y)
                        <= moved'[i].range_dist
        /\ dead' = {fights'[k].loser : k \in DOMAIN fights'}
        \* the list is what the pass left of the moved list
        /\ Len(soldiers') = Cardinality(DOMAIN moved' \ dead')
        /\ \A p \in DOMAIN moved' :
            p \notin dead' => soldiers'[PlaceAfter(p, dead')] = moved'[p]
        \* the entry recorded is taken after combat, with the turn already raised
        /\ turn' = turn + 1
        /\ history'.team_a_count[turn'] =
                Cardinality({n \in DOMAIN soldiers' : soldiers'[n].team = "Quantum"})
        /\ history'.team_b_count[turn'] =
                Cardinality({n \in DOMAIN soldiers' : soldiers'[n].team = "B"})
        /\ history'.turn[turn'] = turn']_vars

\* A step() in which the movement function was called, a soldier of another
\* team walked, the two fought and a soldier the history counts died.
C16_Witness ==
    /\ op = "step"
    /\ calls /= <<>>
    /\ Len(calls) < Len(moved)
    /\ fights /= <<>>
    /\ Count(moved, "Quantum") + Count(moved, "B")
            > history.team_a_count[turn] + history.team_b_count[turn]

\* Every soldier of the list is of team 'Quantum' or 'Classical'.
TwoTeamsOnly(list) == \A i \in DOMAIN list : list[i].team \in {"Quantum", "Classical"}

\* C17: resolve_combat(), called by itself or by step(), never empties a list
\* that is not empty; hence a step() on a non-empty list of 'Quantum' and
\* 'Classical' soldiers leaves a component of get_survivor_count() above zero,
\* and in no state with such a list are both components zero.
C17_CombatLeavesASurvivor ==
    /\ []((soldiers /= <<>> /\ TwoTeamsOnly(soldiers)) =>
            ~(get_survivor_count[1] = 0 /\ get_survivor_count[2] = 0))
    /\ [][/\ (op' \in {"resolve_combat", "step"} /\ soldiers /= <<>>) => soldiers' /= <<>>
          /\ (op' = "step" /\ soldiers /= <<>> /\ TwoTeamsOnly(soldiers)) =>
                /\ TwoTeamsOnly(soldiers')
                /\ get_survivor_count'[1] + get_survivor_count'[2] >= 1]_vars

\* A step() in which the only two soldiers tied and one was left.
C17_Witness ==
    /\ op = "step"
    /\ Len(moved) = 2
    /\ TwoTeamsOnly(moved)
    /\ Len(fights) = 1
    /\ fights[1].cmp = "eq"
    /\ Len(soldiers) = 1

\* C18: the end of a battle is stable. On a list of 'Quantum' and 'Classical'
\* soldiers for which is_battle_over() is true, a step() removes no soldier and
\* leaves is_battle_over() true and get_winner() as it was; so, while no
\* soldier is added, this holds after every later step().
C18_EndOfBattleStable ==
    [][(op' = "step" /\ TwoTeamsOnly(soldiers) /\ is_battle_over) =>
        /\ is_battle_over'
        /\ get_winner' = get_winner
        /\ dead' = {}
        /\ Len(soldiers') = Len(soldiers)
        /\ \A i \in DOMAIN soldiers :
            soldiers'[i] = [soldiers[i] EXCEPT !.x = soldiers'[i].x, !.y = soldiers'[i].y]
        /\ TwoTeamsOnly(soldiers')]_vars

\* The second step(), made on two Classical soldiers standing in each other's
\* range: the battle was over before it.
C18_Witness ==
    /\ op = "step"
    /\ turn = 2
    /\ Len(moved) = 2
    /\ moved[1].team = "Classical" /\ moved[2].team = "Classical"
    /\ distance_to(moved[1], moved[2]) <= moved[1].range_dist
    /\ get_winner = "Classical"

====
